---- MODULE Spec2Model ----
(***************************************************************************)
(* A model of orbitx/data_structures.py: the PhysicsState container, its   *)
(* flat y-vector (_array_rep), the retained protobuf snapshot               *)
(* (_proto_state), the _EntityView accessors and the EngineeringState       *)
(* views (ComponentView, CoolantView, RadiatorView).                        *)
(*                                                                         *)
(* Floats are modelled as integers (every value the model stores is an     *)
(* integer-valued float64, so float(int) and int(float) lose nothing);     *)
(* booleans stored in the y-vector are 1 and 0; numpy arrays are           *)
(* functions over 0..size-1 and numpy slices are (offset, size) windows    *)
(* over the one underlying array, with Python's negative-index wrap.       *)
(***************************************************************************)
EXTENDS Integers, Sequences, FiniteSets, TLC

(***************************************************************************)
(* Bounds of the exploration.                                              *)
(***************************************************************************)
\* Values written through accessors are drawn from 0..MaxVal.
MaxVal == 2
\* Number of calls made on a container after its construction.
MaxOps == 1
\* Number of fields of the base snapshot changed before construction.
MaxEdits == 1

(***************************************************************************)
(* Program constants.                                                      *)
(***************************************************************************)
\* PhysicsState.NO_INDEX
NO_INDEX == -1
\* PhysicsState.N_SINGULAR_ELEMENTS
N_SINGULAR_ELEMENTS == 2
\* 2 * np.pi, in the model's heading unit (a quarter turn).
TWO_PI == 4

\* strings.HABITAT / strings.AYSE and the names lists of strings.py.
HABITAT == "Habitat"
AYSE == "AYSE"
COMPONENT_NAMES == <<"HabReactor", "RadShield">>
COOLANT_LOOP_NAMES == <<"LP1", "LP2">>
RADIATOR_NAMES == <<"RAD1", "RAD2">>

\* protos.Entity.DESCRIPTOR.fields minus the unchanging ones, in order.
_PER_ENTITY_UNCHANGING_FIELDS ==
    <<"name", "mass", "r", "artificial", "atmosphere_thickness",
      "atmosphere_scaling">>
_PER_ENTITY_MUTABLE_FIELDS ==
    <<"x", "y", "vx", "vy", "heading", "spin", "fuel", "throttle",
      "landed_on", "broken">>

\* The fields whose cpp_type is float/double, and the one bool.
FloatFields == {"x", "y", "vx", "vy", "heading", "spin", "fuel", "throttle"}
_LANDED_ON == "landed_on"
BROKEN == "broken"

\* _ENTITY_FIELD_ORDER[name]: 0-based position in _PER_ENTITY_MUTABLE_FIELDS.
_ENTITY_FIELD_ORDER(name) ==
    (CHOOSE k \in 1..Len(_PER_ENTITY_MUTABLE_FIELDS) :
        _PER_ENTITY_MUTABLE_FIELDS[k] = name) - 1

\* Descriptor field orders of the engineering messages.
ComponentDescriptor ==
    <<"connected", "temperature", "resistance", "voltage", "current",
      "attached_to_coolant_loop">>
CoolantLoopDescriptor ==
    <<"coolant_temp", "primary_pump_on", "secondary_pump_on">>
RadiatorDescriptor == <<"attached_to_coolant_loop", "functioning">>
EngBoolFields ==
    {"connected", "primary_pump_on", "secondary_pump_on", "functioning"}

_N_COMPONENTS == Len(COMPONENT_NAMES)
_N_COOLANT_LOOPS == Len(COOLANT_LOOP_NAMES)
_N_RADIATORS == Len(RADIATOR_NAMES)
_N_COMPONENT_FIELDS == Len(ComponentDescriptor)
_N_COOLANT_FIELDS == Len(CoolantLoopDescriptor)
_N_RADIATOR_FIELDS == Len(RadiatorDescriptor)

N_ENGINEERING_FIELDS ==
    _N_COMPONENTS * _N_COMPONENT_FIELDS
    + _N_COOLANT_LOOPS * _N_COOLANT_FIELDS
    + _N_RADIATORS * _N_RADIATOR_FIELDS
_COMPONENT_START_INDEX == 0
_COOLANT_START_INDEX == _N_COMPONENTS * _N_COMPONENT_FIELDS
_RADIATOR_START_INDEX ==
    _COOLANT_START_INDEX + _N_COOLANT_LOOPS * _N_COOLANT_FIELDS

ENGINEERING_START_INDEX == -(N_ENGINEERING_FIELDS)
SRB_TIME_INDEX == ENGINEERING_START_INDEX - 2
TIME_ACC_INDEX == SRB_TIME_INDEX + 1

(***************************************************************************)
(* numpy / Python primitives.                                              *)
(***************************************************************************)
\* float(bool) as numpy stores it, and bool(float).
BoolToNum(b) == IF b THEN 1 ELSE 0
NumToBool(v) == v # 0

\* ndarray[k] for an integer k on an array of `size` cells: the cell a
\* negative k wraps to; outside -size..size-1 numpy raises IndexError.
NpInRange(size, k) == -size <= k /\ k < size
NpPos(size, k) == IF k < 0 THEN k + size ELSE k

\* ndarray[start:stop] as a window [off, size] of the array it slices
\* (numpy clips a slice, it never raises); start/stop may be negative.
NpClip(size, k) ==
    IF k < 0 THEN (IF k + size < 0 THEN 0 ELSE k + size)
    ELSE (IF k > size THEN size ELSE k)
NpSlice(win, start, stop) ==
    LET a == NpClip(win.size, start)
        b == NpClip(win.size, stop)
    IN  [off |-> win.off + a, size |-> IF b > a THEN b - a ELSE 0]
NpSliceFrom(win, start) ==
    LET a == NpClip(win.size, start)
    IN  [off |-> win.off + a, size |-> win.size - a]

\* list.index(x): the 0-based position of the first x, or -2 for the
\* ValueError Python raises when x is not in the list.
NOT_FOUND == NO_INDEX - 1
ListIndex(list, x) ==
    IF \E k \in 1..Len(list) : list[k] = x
    THEN (CHOOSE k \in 1..Len(list) :
            list[k] = x /\ \A j \in 1..(k - 1) : list[j] # x) - 1
    ELSE NOT_FOUND

\* list[k] with Python's negative-index wrap (IndexError outside).
PyListGet(list, k) == list[NpPos(Len(list), k) + 1]

(***************************************************************************)
(* The y-vector.  A container is a record                                  *)
(*   [proto |-> _proto_state, names |-> _entity_names, arr |-> _array_rep] *)
(* with arr a sequence whose element p+1 is numpy cell p.                  *)
(***************************************************************************)
Whole(arr) == [off |-> 0, size |-> Len(arr)]
WinGet(arr, win, k) == arr[win.off + NpPos(win.size, k) + 1]
WinSet(arr, win, k, v) ==
    [arr EXCEPT ![win.off + NpPos(win.size, k) + 1] = v]

\* PhysicsState._n
N(c) == Len(c.names)

\* The y-vector length PhysicsState.__init__ allocates and asserts.
ArraySize(n_entities) ==
    n_entities * Len(_PER_ENTITY_MUTABLE_FIELDS)
    + N_SINGULAR_ELEMENTS + N_ENGINEERING_FIELDS

\* _y_component with every column starting one cell late.
_y_component_shifted(c, field_name) ==
    NpSlice(Whole(c.arr), _ENTITY_FIELD_ORDER(field_name) * N(c) + 1,
            (_ENTITY_FIELD_ORDER(field_name) + 1) * N(c) + 1)

\* PhysicsState._y_component(field_name): a slice of _array_rep.
_y_component(c, field_name) ==
    NpSlice(Whole(c.arr),
            _ENTITY_FIELD_ORDER(field_name) * N(c),
            (_ENTITY_FIELD_ORDER(field_name) + 1) * N(c))

\* _name_to_index returning 1-based positions.
_name_to_index_one_based(names, name) ==
    IF name = "" THEN NO_INDEX
    ELSE IF ListIndex(names, name) = NOT_FOUND THEN NOT_FOUND
    ELSE ListIndex(names, name) + 1

\* PhysicsState._name_to_index: NOT_FOUND stands for NoEntityError.
_name_to_index(names, name) ==
    IF name = "" THEN NO_INDEX ELSE ListIndex(names, name)

\* PhysicsState._index_to_name
_index_to_name(names, index) ==
    IF index # NO_INDEX THEN PyListGet(names, index) ELSE ""

\* The slices handed to EngineeringState and to its three view kinds.
EngWin(arr) == NpSliceFrom(Whole(arr), ENGINEERING_START_INDEX)
ComponentWin(arr) ==
    NpSlice(EngWin(arr), _COMPONENT_START_INDEX, _COOLANT_START_INDEX)
CoolantWin(arr) ==
    NpSlice(EngWin(arr), _COOLANT_START_INDEX, _RADIATOR_START_INDEX)
RadiatorWin(arr) == NpSliceFrom(EngWin(arr), _RADIATOR_START_INDEX)

(***************************************************************************)
(* _EntityView: a view is [creator, index]; its accessors index the        *)
(* creator's _array_rep at _n * field_n + _index, with no check of _index.  *)
(***************************************************************************)
\* The cell of a row-major layout: field_count * _index + field_n.
ViewCell_row_major(c, index, field) ==
    Len(_PER_ENTITY_MUTABLE_FIELDS) * index + _ENTITY_FIELD_ORDER(field)

ViewCell(c, index, field) == N(c) * _ENTITY_FIELD_ORDER(field) + index

\* entity_view_mutable_fget, float branch: the value read (when the cell
\* is in numpy's range), and the exception it raises otherwise.
entity_view_mutable_fget(c, index, field) ==
    WinGet(c.arr, Whole(c.arr), ViewCell(c, index, field))
entity_view_mutable_fget_raises(c, index, field) ==
    IF NpInRange(Len(c.arr), ViewCell(c, index, field))
    THEN "none" ELSE "IndexError"

\* entity_view_mutable_fget, bool branch.
entity_view_mutable_fget_bool(c, index, field) ==
    NumToBool(WinGet(c.arr, Whole(c.arr), ViewCell(c, index, field)))

\* The landed_on getter without the NO_INDEX test: the stored -1 indexes
\* the name table from its end.
entity_view_mutable_fget_landed_on_no_sentinel(c, index) ==
    PyListGet(c.names,
              WinGet(c.arr, Whole(c.arr), ViewCell(c, index, _LANDED_ON)))

\* entity_view_mutable_fget, landed_on branch.
entity_view_mutable_fget_landed_on(c, index) ==
    LET entity_index ==
            WinGet(c.arr, Whole(c.arr), ViewCell(c, index, _LANDED_ON))
    IN  IF entity_index = NO_INDEX THEN ""
        ELSE PyListGet(c.names, entity_index)
entity_view_mutable_fget_landed_on_raises(c, index) ==
    IF ~NpInRange(Len(c.arr), ViewCell(c, index, _LANDED_ON))
    THEN "IndexError"
    ELSE LET entity_index ==
                 WinGet(c.arr, Whole(c.arr), ViewCell(c, index, _LANDED_ON))
         IN  IF entity_index # NO_INDEX
                /\ ~NpInRange(Len(c.names), entity_index)
             THEN "IndexError" ELSE "none"

\* entity_view_mutable_fset, float and bool branches (val already a
\* number: a bool is stored as 1.0 or 0.0).  Result: [raised, arr].
entity_view_mutable_fset(c, index, field, val) ==
    IF NpInRange(Len(c.arr), ViewCell(c, index, field))
    THEN [raised |-> "none",
          arr |-> WinSet(c.arr, Whole(c.arr), ViewCell(c, index, field), val)]
    ELSE [raised |-> "IndexError", arr |-> c.arr]

\* The landed_on setter storing "not landed" for a name it cannot find.
entity_view_mutable_fset_landed_on_lenient(c, index, val) ==
    LET target == _name_to_index(c.names, val)
    IN  entity_view_mutable_fset(c, index, _LANDED_ON,
            IF target = NOT_FOUND THEN NO_INDEX ELSE target)

\* entity_view_mutable_fset, landed_on branch: the right-hand side
\* _name_to_index(val) is evaluated before the cell is indexed.
entity_view_mutable_fset_landed_on(c, index, val) ==
    LET target == _name_to_index(c.names, val)
    IN  IF target = NOT_FOUND
        THEN [raised |-> "NoEntityError", arr |-> c.arr]
        ELSE entity_view_mutable_fset(c, index, _LANDED_ON, target)

\* Entity.landed(), on a view: self.landed_on != ''
Entity_landed(c, index) == entity_view_mutable_fget_landed_on(c, index) # ""

\* entity_view_unchanging_fget: self._creator._proto_state.entities[index]
\* (a protobuf repeated field indexes like a Python list).
entity_view_unchanging_fget(c, index) ==
    PyListGet(c.proto.entities, index)

(***************************************************************************)
(* EngineeringState and its views.  An engineering view is [kind, n].      *)
(***************************************************************************)
EngFieldOffset(descriptor, field) ==
    (CHOOSE k \in 1..Len(descriptor) : descriptor[k] = field) - 1

EngViewWin(arr, kind) ==
    CASE kind = "component" -> ComponentWin(arr)
      [] kind = "coolant" -> CoolantWin(arr)
      [] kind = "radiator" -> RadiatorWin(arr)
EngViewDescriptor(kind) ==
    CASE kind = "component" -> ComponentDescriptor
      [] kind = "coolant" -> CoolantLoopDescriptor
      [] kind = "radiator" -> RadiatorDescriptor
\* self._n * _N_<KIND>_FIELDS + offset, as each view property computes it.
EngViewIndex(view, field) ==
    view.n * Len(EngViewDescriptor(view.kind))
    + EngFieldOffset(EngViewDescriptor(view.kind), field)

\* A view property's getter: the number in the cell (bool(), int() are
\* applied by the caller below), and the exception raised instead.
EngViewGetRaises(arr, view, field) ==
    IF NpInRange(EngViewWin(arr, view.kind).size, EngViewIndex(view, field))
    THEN "none" ELSE "IndexError"
EngViewGet(arr, view, field) ==
    WinGet(arr, EngViewWin(arr, view.kind), EngViewIndex(view, field))
\* A view property's setter.  Result: [raised, arr].
EngViewSet(arr, view, field, val) ==
    IF NpInRange(EngViewWin(arr, view.kind).size, EngViewIndex(view, field))
    THEN [raised |-> "none",
          arr |-> WinSet(arr, EngViewWin(arr, view.kind),
                         EngViewIndex(view, field), val)]
    ELSE [raised |-> "IndexError", arr |-> arr]

\* ComponentList / CoolantLoopList / RadiatorList .__getitem__(int):
\* only index >= count is refused.  Result: [raised, view].
EngCount(kind) ==
    CASE kind = "component" -> _N_COMPONENTS
      [] kind = "coolant" -> _N_COOLANT_LOOPS
      [] kind = "radiator" -> _N_RADIATORS
NoEngView == [kind |-> "none", n |-> 0]
EngListGetItem(kind, index) ==
    IF index >= EngCount(kind)
    THEN [raised |-> "IndexError", view |-> NoEngView]
    ELSE [raised |-> "none", view |-> [kind |-> kind, n |-> index]]

\* get_coolant_loop taking the stored reference as a 0-based position.
get_coolant_loop_zero_based(arr, view) ==
    IF EngViewGetRaises(arr, view, "attached_to_coolant_loop") # "none"
    THEN [raised |-> "IndexError", view |-> NoEngView]
    ELSE EngListGetItem("coolant",
             EngViewGet(arr, view, "attached_to_coolant_loop"))

\* ComponentView.get_coolant_loop / RadiatorView.get_coolant_loop:
\* self._parent.coolant_loops[self.attached_to_coolant_loop - 1].
get_coolant_loop(arr, view) ==
    IF EngViewGetRaises(arr, view, "attached_to_coolant_loop") # "none"
    THEN [raised |-> "IndexError", view |-> NoEngView]
    ELSE EngListGetItem("coolant",
             EngViewGet(arr, view, "attached_to_coolant_loop") - 1)

(***************************************************************************)
(* EngineeringState.__init__ (populate_array) and as_proto.                *)
(***************************************************************************)
\* array_rep[write_marker] = getattr(proto, field.name): the value as the
\* float64 array stores it.
EngStored(rec, field) ==
    IF field \in EngBoolFields THEN BoolToNum(rec[field]) ELSE rec[field]
\* The inner two loops for one proto_list: instance-major, field-minor.
EngFlatten(proto_list, descriptor) ==
    [k \in 1..(Len(proto_list) * Len(descriptor)) |->
        EngStored(proto_list[((k - 1) \div Len(descriptor)) + 1],
                  descriptor[((k - 1) % Len(descriptor)) + 1])]
\* The values written at write_marker = 0, 1, 2, ...
EngPopulate(eng) ==
    EngFlatten(eng.components, ComponentDescriptor)
    \o EngFlatten(eng.coolant_loops, CoolantLoopDescriptor)
    \o EngFlatten(eng.radiators, RadiatorDescriptor)
\* The three assertions that open EngineeringState.__init__.
EngInitAsserts(eng) ==
    /\ Len(eng.components) = _N_COMPONENTS
    /\ Len(eng.coolant_loops) = _N_COOLANT_LOOPS
    /\ Len(eng.radiators) = _N_RADIATORS

\* EngineeringState.as_proto: a copy of the retained EngineeringState with
\* the listed fields of every instance re-read through the views; the
\* zip() over each list stops at the list lookup's IndexError.
EngineeringState_as_proto(arr, eng) ==
    [eng EXCEPT
        !.components = [k \in 1..Len(eng.components) |->
            LET v == [kind |-> "component", n |-> k - 1]
            IN  [eng.components[k] EXCEPT
                    !.connected = NumToBool(EngViewGet(arr, v, "connected")),
                    !.temperature = EngViewGet(arr, v, "temperature"),
                    !.resistance = EngViewGet(arr, v, "resistance"),
                    !.voltage = EngViewGet(arr, v, "voltage"),
                    !.current = EngViewGet(arr, v, "current")]],
        !.coolant_loops = [k \in 1..Len(eng.coolant_loops) |->
            LET v == [kind |-> "coolant", n |-> k - 1]
            IN  [eng.coolant_loops[k] EXCEPT
                    !.coolant_temp = EngViewGet(arr, v, "coolant_temp"),
                    !.primary_pump_on =
                        NumToBool(EngViewGet(arr, v, "primary_pump_on")),
                    !.secondary_pump_on =
                        NumToBool(EngViewGet(arr, v, "secondary_pump_on"))]],
        !.radiators = [k \in 1..Len(eng.radiators) |->
            LET v == [kind |-> "radiator", n |-> k - 1]
            IN  [eng.radiators[k] EXCEPT
                    !.attached_to_coolant_loop =
                        EngViewGet(arr, v, "attached_to_coolant_loop"),
                    !.functioning =
                        NumToBool(EngViewGet(arr, v, "functioning"))]]]

(***************************************************************************)
(* PhysicsState.__init__, y is None (the array is built from the proto).   *)
(***************************************************************************)
\* proto_value as stored at _n * field_n + entity_index.
EntityStored(names, entity, field) ==
    IF field = _LANDED_ON THEN _name_to_index(names, entity.landed_on)
    ELSE IF field = BROKEN THEN BoolToNum(entity.broken)
    ELSE entity[field]

ProtoNames(proto_state) ==
    [k \in 1..Len(proto_state.entities) |-> proto_state.entities[k].name]

\* The array after the three populate steps, before np.mod.
ColdArray(proto_state) ==
    LET n == Len(proto_state.entities)
        size == ArraySize(n)
        names == ProtoNames(proto_state)
        eng == NpSliceFrom([off |-> 0, size |-> size],
                           ENGINEERING_START_INDEX)
        pop == EngPopulate(proto_state.engineering)
    IN  [q \in 1..size |->
            LET p == q - 1
            IN  IF p >= eng.off /\ p - eng.off < Len(pop)
                THEN pop[p - eng.off + 1]
                ELSE IF p = NpPos(size, TIME_ACC_INDEX)
                THEN proto_state.time_acc
                ELSE IF p = NpPos(size, SRB_TIME_INDEX)
                THEN proto_state.srb_time
                ELSE EntityStored(names, proto_state.entities[(p % n) + 1],
                         _PER_ENTITY_MUTABLE_FIELDS[(p \div n) + 1])]

\* np.mod applied to the whole y-vector instead of the Heading column.
NormalizeHeading_whole_array(c) ==
    [c EXCEPT !.arr = [q \in 1..Len(c.arr) |-> c.arr[q] % TWO_PI]]

\* np.mod(self.Heading, 2 * np.pi, out=self.Heading)
NormalizeHeading(c) ==
    LET h == _y_component(c, "heading")
    IN  [c EXCEPT !.arr = [q \in 1..Len(c.arr) |->
            IF q - 1 >= h.off /\ q - 1 < h.off + h.size
            THEN c.arr[q] % TWO_PI ELSE c.arr[q]]]

\* What the constructor raises on this path.
ColdConstructRaises(proto_state) ==
    IF \E k \in 1..Len(proto_state.entities) :
          _name_to_index(ProtoNames(proto_state),
                         proto_state.entities[k].landed_on) = NOT_FOUND
    THEN "NoEntityError"
    ELSE IF ~EngInitAsserts(proto_state.engineering)
    THEN "AssertionError" ELSE "none"

\* PhysicsState(None, proto_state), when it raises nothing.
ColdConstruct(proto_state) ==
    NormalizeHeading([proto |-> proto_state,
                      names |-> ProtoNames(proto_state),
                      arr |-> ColdArray(proto_state)])

(***************************************************************************)
(* PhysicsState.__init__, y given (the array is taken from y).             *)
(***************************************************************************)
\* The HotConstructRaises that refuses only a y-vector that is too short.
HotConstructRaises_accepts_longer(y, proto_state) ==
    IF ~NpInRange(Len(y), SRB_TIME_INDEX) \/ ~NpInRange(Len(y), TIME_ACC_INDEX)
    THEN "IndexError"
    ELSE IF ~EngInitAsserts(proto_state.engineering)
            \/ Len(y) < ArraySize(Len(proto_state.entities))
    THEN "AssertionError" ELSE "none"

\* y[SRB_TIME_INDEX] raises on a y too short to hold the index; then come
\* EngineeringState's assertions and the assertion on the array's size.
HotConstructRaises(y, proto_state) ==
    IF ~NpInRange(Len(y), SRB_TIME_INDEX) \/ ~NpInRange(Len(y), TIME_ACC_INDEX)
    THEN "IndexError"
    ELSE IF ~EngInitAsserts(proto_state.engineering)
            \/ Len(y) # ArraySize(Len(proto_state.entities))
    THEN "AssertionError" ELSE "none"

\* The hot path leaving the retained snapshot's two scalars as given.
HotConstruct_keeps_scalars(y, proto_state) ==
    NormalizeHeading([proto |-> proto_state,
                      names |-> ProtoNames(proto_state),
                      arr |-> y])

\* PhysicsState(y, proto_state), when it raises nothing.
HotConstruct(y, proto_state) ==
    NormalizeHeading(
        [proto |-> [proto_state EXCEPT
                       !.srb_time = WinGet(y, Whole(y), SRB_TIME_INDEX),
                       !.time_acc = WinGet(y, Whole(y), TIME_ACC_INDEX)],
         names |-> ProtoNames(proto_state),
         arr |-> y])

(***************************************************************************)
(* PhysicsState.as_proto                                                   *)
(***************************************************************************)
PhysicsState_as_proto(c) ==
    [c.proto EXCEPT
        !.entities = [k \in 1..Len(c.proto.entities) |->
            [c.proto.entities[k] EXCEPT
                !.x = entity_view_mutable_fget(c, k - 1, "x"),
                !.y = entity_view_mutable_fget(c, k - 1, "y"),
                !.vx = entity_view_mutable_fget(c, k - 1, "vx"),
                !.vy = entity_view_mutable_fget(c, k - 1, "vy"),
                !.heading = entity_view_mutable_fget(c, k - 1, "heading"),
                !.spin = entity_view_mutable_fget(c, k - 1, "spin"),
                !.fuel = entity_view_mutable_fget(c, k - 1, "fuel"),
                !.throttle = entity_view_mutable_fget(c, k - 1, "throttle"),
                !.landed_on = entity_view_mutable_fget_landed_on(c, k - 1),
                !.broken = entity_view_mutable_fget_bool(c, k - 1, BROKEN)]],
        !.engineering = EngineeringState_as_proto(c.arr, c.proto.engineering)]

\* as_proto raises when a landed_on cell holds no index of the name table.
PhysicsState_as_proto_raises(c) ==
    IF \E k \in 1..N(c) :
          entity_view_mutable_fget_landed_on_raises(c, k - 1) # "none"
    THEN "IndexError" ELSE "none"

(***************************************************************************)
(* PhysicsState.__getitem__ and __setitem__.                               *)
(* A key is [kind |-> "int" or "str", i, s]; an Entity-like source is      *)
(* [kind |-> "entity" or "view", creator, index, proto]: a standalone      *)
(* Entity wrapping proto, or an _EntityView of the container named by      *)
(* creator ("self" is the container assigned to).                          *)
(***************************************************************************)
IntKey(i) == [kind |-> "int", i |-> i, s |-> ""]
StrKey(s) == [kind |-> "str", i |-> 0, s |-> s]
NoView == [creator |-> "none", index |-> 0]

\* Result: [raised, view].  A str key goes through list.index (ValueError
\* when absent); an int key is taken as it is.
PhysicsState_getitem(c, key) ==
    IF key.kind = "str"
    THEN IF ListIndex(c.names, key.s) = NOT_FOUND
         THEN [raised |-> "ValueError", view |-> NoView]
         ELSE [raised |-> "none",
               view |-> [creator |-> "self",
                         index |-> ListIndex(c.names, key.s)]]
    ELSE [raised |-> "none", view |-> [creator |-> "self", index |-> key.i]]

\* The order of the tuple assignment in __setitem__.
SetItemOrder ==
    <<"x", "y", "vx", "vy", "heading", "spin", "fuel", "throttle",
      "landed_on", "broken">>

\* val.<field> for the source val, d being the container a view reads.
SourceRaises(d, val) ==
    IF val.kind = "entity" THEN "none"
    ELSE IF \E f \in FloatFields \cup {BROKEN} :
               entity_view_mutable_fget_raises(d, val.index, f) # "none"
    THEN "IndexError"
    ELSE entity_view_mutable_fget_landed_on_raises(d, val.index)
SourceValues(d, val) ==
    IF val.kind = "entity"
    THEN val.proto
    ELSE [x |-> entity_view_mutable_fget(d, val.index, "x"),
          y |-> entity_view_mutable_fget(d, val.index, "y"),
          vx |-> entity_view_mutable_fget(d, val.index, "vx"),
          vy |-> entity_view_mutable_fget(d, val.index, "vy"),
          heading |-> entity_view_mutable_fget(d, val.index, "heading"),
          spin |-> entity_view_mutable_fget(d, val.index, "spin"),
          fuel |-> entity_view_mutable_fget(d, val.index, "fuel"),
          throttle |-> entity_view_mutable_fget(d, val.index, "throttle"),
          landed_on |-> entity_view_mutable_fget_landed_on(d, val.index),
          broken |-> entity_view_mutable_fget_bool(d, val.index, BROKEN)]

\* entity.<field> = value, for the k-th and later targets of the tuple
\* assignment, stopping at the first setter that raises.
RECURSIVE AssignFields(_, _, _, _)
AssignFields(c, i, vals, k) ==
    IF k > Len(SetItemOrder) THEN [raised |-> "none", arr |-> c.arr]
    ELSE LET f == SetItemOrder[k]
             r == IF f = _LANDED_ON
                  THEN entity_view_mutable_fset_landed_on(c, i, vals.landed_on)
                  ELSE IF f = BROKEN
                  THEN entity_view_mutable_fset(c, i, f,
                                                BoolToNum(vals.broken))
                  ELSE entity_view_mutable_fset(c, i, f, vals[f])
         IN  IF r.raised # "none" THEN r
             ELSE AssignFields([c EXCEPT !.arr = r.arr], i, vals, k + 1)

\* __setitem__ after the early return: resolve the key, read the source,
\* assign the ten fields.  Result: [raised, arr].
SetItemCopy(c, d, key, val) ==
    LET got == PhysicsState_getitem(c, key)
    IN  IF got.raised # "none"
        THEN [raised |-> got.raised, arr |-> c.arr]
        ELSE IF SourceRaises(d, val) # "none"
        THEN [raised |-> SourceRaises(d, val), arr |-> c.arr]
        ELSE AssignFields(c, got.view.index, SourceValues(d, val), 1)

\* __setitem__ without the early return for a view of its own data.
PhysicsState_setitem_always_copies(c, d, key, val) ==
    SetItemCopy(c, d, key, val)

\* PhysicsState.__setitem__(key, val).  Result: [raised, arr].
PhysicsState_setitem(c, d, key, val) ==
    IF val.kind = "view" /\ val.creator = "self"
    THEN [raised |-> "none", arr |-> c.arr]
    ELSE SetItemCopy(c, d, key, val)

(***************************************************************************)
(* Snapshots (protos.PhysicalState) the runs start from.                   *)
(***************************************************************************)
BaseEntity(name) ==
    [name |-> name, mass |-> 1, r |-> 1, artificial |-> FALSE,
     atmosphere_thickness |-> 0, atmosphere_scaling |-> 0,
     x |-> 0, y |-> 0, vx |-> 0, vy |-> 0, heading |-> 0, spin |-> 0,
     fuel |-> 0, throttle |-> 0, landed_on |-> "", broken |-> FALSE]
BaseComponent(loop) ==
    [connected |-> TRUE, temperature |-> 0, resistance |-> 0, voltage |-> 0,
     current |-> 0, attached_to_coolant_loop |-> loop]
BaseCoolantLoop(temp) ==
    [coolant_temp |-> temp, primary_pump_on |-> TRUE,
     secondary_pump_on |-> FALSE]
BaseRadiator(loop) ==
    [attached_to_coolant_loop |-> loop, functioning |-> TRUE]
BaseEngineering ==
    [components |-> <<BaseComponent(Len(COOLANT_LOOP_NAMES)), BaseComponent(0)>>,
     coolant_loops |-> <<BaseCoolantLoop(1), BaseCoolantLoop(1 + 1)>>,
     radiators |-> <<BaseRadiator(1), BaseRadiator(0)>>,
     master_alarm |-> FALSE, radiation_alarm |-> FALSE,
     asteroid_alarm |-> FALSE, hab_reactor_alarm |-> FALSE,
     ayse_reactor_alarm |-> FALSE, hab_gnomes |-> FALSE]
BaseSnapshot ==
    [entities |-> <<BaseEntity(HABITAT), BaseEntity(AYSE)>>,
     timestamp |-> 0, srb_time |-> 0, time_acc |-> 1,
     parachute_deployed |-> FALSE,
     reference |-> HABITAT, target |-> AYSE, navmode |-> 0,
     engineering |-> BaseEngineering]
\* The Habitat docked to the AYSE, with a heading of more than a turn.
DockedSnapshot ==
    [BaseSnapshot EXCEPT
        !.entities[1].landed_on = AYSE,
        !.entities[1].heading = TWO_PI + 1,
        !.entities[1 + 1].x = 1]
\* A second container, over another entity list.
OtherSnapshot ==
    [BaseSnapshot EXCEPT
        !.entities = <<[BaseEntity(HABITAT) EXCEPT
                           !.x = MaxVal + 1, !.fuel = 1,
                           !.landed_on = "Moon", !.broken = TRUE],
                       [BaseEntity("Moon") EXCEPT
                           !.y = MaxVal + 1, !.heading = 1]>>]
Other == ColdConstruct(OtherSnapshot)
\* A y-vector as the integrator hands it back for DockedSnapshot: the
\* first entity has moved and turned, and the second entity's broken
\* cell is a float that is neither 0.0 nor 1.0.
IntegratorY ==
    LET c == ColdConstruct(DockedSnapshot)
    IN  [c.arr EXCEPT
            ![ViewCell(c, 0, "x") + 1] = MaxVal + 1,
            ![ViewCell(c, 0, "heading") + 1] = TWO_PI + TWO_PI - 1,
            ![ViewCell(c, 1, BROKEN) + 1] = MaxVal + 1]
\* The containers a run starts from: two built from a snapshot, one
\* wrapped around the integrator's y-vector.
StartContainers ==
    {ColdConstruct(BaseSnapshot), ColdConstruct(DockedSnapshot),
     HotConstruct(IntegratorY, DockedSnapshot)}

\* Inputs.
Vals == 0..MaxVal
InputVals == {-1, TWO_PI + MaxVal}
InputNames == {"", HABITAT, AYSE, "Pluto"}
EntityNumFields ==
    FloatFields \cup {"mass", "r", "atmosphere_thickness", "atmosphere_scaling"}
EntityBoolFields == {"artificial", BROKEN}
EngFlags ==
    {"master_alarm", "radiation_alarm", "asteroid_alarm",
     "hab_reactor_alarm", "ayse_reactor_alarm", "hab_gnomes"}
EngKinds == {"component", "coolant", "radiator"}
EngListField(kind) ==
    CASE kind = "component" -> "components"
      [] kind = "coolant" -> "coolant_loops"
      [] kind = "radiator" -> "radiators"
DescriptorFields(kind) ==
    {EngViewDescriptor(kind)[k] : k \in 1..Len(EngViewDescriptor(kind))}

(***************************************************************************)
(* State.                                                                  *)
(***************************************************************************)
VARIABLES
    pc,            \* "input": no container yet; "live"; "exported";
                   \* "asked": craft has answered; "rebuilt": a second
                   \* container wraps y0(); "failed"
    snap,          \* the protos.PhysicalState handed to the constructor
    nedits,        \* fields of snap changed so far
    proto_state,   \* PhysicsState._proto_state
    entity_names,  \* PhysicsState._entity_names
    array_rep,     \* PhysicsState._array_rep
    last,          \* the last call: what, with what, and how it ended
    nops,          \* calls made on the live container so far
    out            \* what as_proto() returned

vars ==
    <<pc, snap, nedits, proto_state, entity_names, array_rep, last, nops,
      out>>

\* The container as the operators above take it.
Self == [proto |-> proto_state, names |-> entity_names, arr |-> array_rep]

NoSource ==
    [kind |-> "none", creator |-> "none", index |-> 0,
     proto |-> BaseEntity("")]
NoCall ==
    [op |-> "none", raised |-> "none", key |-> IntKey(0), field |-> "",
     num |-> 0, ref |-> 0, str |-> "", src |-> NoSource, view |-> NoView,
     engview |-> NoEngView, pre_arr |-> <<>>, none |-> FALSE,
     built |-> <<>>]

InitInput ==
    /\ pc = "input"
    /\ snap \in {BaseSnapshot, DockedSnapshot}
    /\ nedits = 0
    /\ proto_state = snap
    /\ entity_names = <<>>
    /\ array_rep = <<>>
    /\ last = NoCall
    /\ nops = 0
    /\ out = snap

InitLive ==
    /\ pc = "live"
    /\ nedits = 0
    /\ \E c \in StartContainers :
          /\ snap = c.proto
          /\ proto_state = c.proto
          /\ entity_names = c.names
          /\ array_rep = c.arr
    /\ last = [NoCall EXCEPT !.op = "init"]
    /\ nops = 0
    /\ out = snap

(***************************************************************************)
(* Building the input snapshot: one field changed per step.                *)
(***************************************************************************)
Edit(s) ==
    /\ pc = "input"
    /\ nedits < MaxEdits
    /\ s # snap
    /\ snap' = s
    /\ nedits' = nedits + 1
    /\ proto_state' = s
    /\ out' = s
    /\ UNCHANGED <<pc, entity_names, array_rep, last, nops>>

EditEntityNum ==
    \E k \in 1..Len(snap.entities), f \in EntityNumFields, v \in InputVals :
        Edit([snap EXCEPT !.entities[k][f] = v])
EditEntityBool ==
    \E k \in 1..Len(snap.entities), f \in EntityBoolFields :
        Edit([snap EXCEPT !.entities[k][f] = ~snap.entities[k][f]])
EditEntityName ==
    \E k \in 1..Len(snap.entities), s \in InputNames \ {""} :
        Edit([snap EXCEPT !.entities[k].name = s])
EditEntityLandedOn ==
    \E k \in 1..Len(snap.entities), s \in InputNames :
        Edit([snap EXCEPT !.entities[k].landed_on = s])
EditScalar ==
    \E f \in {"timestamp", "srb_time", "time_acc", "navmode"},
       v \in InputVals :
        Edit([snap EXCEPT ![f] = v])
EditSelector ==
    \/ \E f \in {"reference", "target"}, s \in InputNames :
          Edit([snap EXCEPT ![f] = s])
    \/ Edit([snap EXCEPT !.parachute_deployed = ~snap.parachute_deployed])
EditEngFlag ==
    \E f \in EngFlags :
        Edit([snap EXCEPT !.engineering[f] = ~snap.engineering[f]])
EditEngField ==
    \E kind \in EngKinds :
      \E k \in 1..EngCount(kind), f \in DescriptorFields(kind) :
        IF f \in EngBoolFields
        THEN Edit([snap EXCEPT !.engineering[EngListField(kind)][k][f] =
                      ~snap.engineering[EngListField(kind)][k][f]])
        ELSE \E v \in InputVals :
               Edit([snap EXCEPT !.engineering[EngListField(kind)][k][f] = v])

\* PhysicsState(None, snap)
Construct ==
    /\ pc = "input"
    /\ IF ColdConstructRaises(snap) = "none"
       THEN /\ pc' = "live"
            /\ proto_state' = ColdConstruct(snap).proto
            /\ entity_names' = ColdConstruct(snap).names
            /\ array_rep' = ColdConstruct(snap).arr
            /\ last' = [NoCall EXCEPT !.op = "init"]
       ELSE /\ pc' = "failed"
            /\ last' = [NoCall EXCEPT !.op = "init",
                                      !.raised = ColdConstructRaises(snap)]
            /\ UNCHANGED <<proto_state, entity_names, array_rep>>
    /\ UNCHANGED <<snap, nedits, nops, out>>

\* as_proto() on the live container
AsProto ==
    /\ pc = "live"
    /\ IF PhysicsState_as_proto_raises(Self) = "none"
       THEN /\ out' = PhysicsState_as_proto(Self)
            /\ last' = [NoCall EXCEPT !.op = "as_proto"]
       ELSE /\ out' = out
            /\ last' = [NoCall EXCEPT
                            !.op = "as_proto",
                            !.raised = PhysicsState_as_proto_raises(Self)]
    /\ pc' = "exported"
    /\ UNCHANGED <<snap, nedits, proto_state, entity_names, array_rep,
                   nops>>

NextRoundTrip ==
    \/ EditEntityNum
    \/ EditEntityBool
    \/ EditEntityName
    \/ EditEntityLandedOn
    \/ EditScalar
    \/ EditSelector
    \/ EditEngFlag
    \/ EditEngField
    \/ Construct
    \/ AsProto

SpecRoundTrip == InitInput /\ [][NextRoundTrip]_vars

(***************************************************************************)
(* Entity access on the live container.  An _EntityView is the pair        *)
(* (creator, index) and nothing else, so a view obtained earlier and kept  *)
(* is the same value as one obtained now: each step below is one call,     *)
(* C[key] alone or C[key].<field> = v, and the properties speak of "every  *)
(* view of row i" through the keys that yield it.                          *)
(***************************************************************************)
\* Integer rows a caller may ask for: one below and one above the rows.
RowInputs == NO_INDEX..Len(entity_names)
Rows == 0..(Len(entity_names) - 1)
KeyInputs ==
    {IntKey(i) : i \in RowInputs} \cup {StrKey(s) : s \in InputNames \ {""}}

\* The view C[key] returns (NoView when it raises).
KeyView(key) == PhysicsState_getitem(Self, key).view

\* Standalone Entity objects handed to __setitem__.
Probe ==
    [BaseEntity("Probe") EXCEPT
        !.x = MaxVal, !.vy = 1, !.heading = TWO_PI + 1, !.fuel = MaxVal,
        !.landed_on = AYSE, !.broken = TRUE]
Stray == [BaseEntity("Stray") EXCEPT !.y = 1, !.landed_on = "Moon"]
EntitySource(e) ==
    [kind |-> "entity", creator |-> "none", index |-> 0, proto |-> e]
ViewSource(creator, index) ==
    [kind |-> "view", creator |-> creator, index |-> index,
     proto |-> BaseEntity("")]
SourceInputs ==
    {EntitySource(Probe), EntitySource(Stray)}
    \cup {ViewSource("other", i) : i \in 0..(N(Other) - 1)}
    \cup {ViewSource("self", i) : i \in Rows}
\* The container a source view reads.
SourceContainer(val) == IF val.creator = "other" THEN Other ELSE Self

\* One call on the live container, ending with r = [raised, arr].
Call(call, r) ==
    /\ pc = "live"
    /\ nops < MaxOps
    /\ nops' = nops + 1
    /\ array_rep' = r.arr
    /\ last' = [call EXCEPT !.raised = r.raised, !.pre_arr = array_rep]
    /\ UNCHANGED <<pc, snap, nedits, proto_state, entity_names, out>>

\* C[i] / C[name]
GetItem(key) ==
    Call([NoCall EXCEPT !.op = "getitem", !.key = key,
                        !.view = PhysicsState_getitem(Self, key).view],
         [raised |-> PhysicsState_getitem(Self, key).raised,
          arr |-> array_rep])
GetItemInt == \E i \in RowInputs : GetItem(IntKey(i))
GetItemStr == \E s \in InputNames \ {""} : GetItem(StrKey(s))

\* C[key].<field> = ...: what the setter's result is once C[key] has
\* returned its view, and the ValueError of C[key] otherwise.
ThroughView(key, call, r) ==
    Call([call EXCEPT !.op = "viewset", !.key = key,
                      !.view = PhysicsState_getitem(Self, key).view],
         IF PhysicsState_getitem(Self, key).raised = "none" THEN r
         ELSE [raised |-> PhysicsState_getitem(Self, key).raised,
               arr |-> array_rep])

\* C[key].<f> = v for a float field
ViewSetFloat ==
    \E key \in KeyInputs, f \in FloatFields, v \in Vals :
        ThroughView(key, [NoCall EXCEPT !.field = f, !.num = v],
            entity_view_mutable_fset(Self, KeyView(key).index, f, v))
\* C[key].broken = b
ViewSetBroken ==
    \E key \in KeyInputs, b \in BOOLEAN :
        ThroughView(key,
            [NoCall EXCEPT !.field = BROKEN, !.num = BoolToNum(b)],
            entity_view_mutable_fset(Self, KeyView(key).index, BROKEN,
                                     BoolToNum(b)))
\* C[key].landed_on = s
ViewSetLandedOn ==
    \E key \in KeyInputs, s \in InputNames :
        ThroughView(key, [NoCall EXCEPT !.field = _LANDED_ON, !.str = s],
            entity_view_mutable_fset_landed_on(Self, KeyView(key).index, s))

\* C.X[i] = v, C.Heading[i] = v, ..., C.Broken[i] = v
ColumnWrite(c, f, i, v) ==
    IF NpInRange(_y_component(c, f).size, i)
    THEN [raised |-> "none", arr |-> WinSet(c.arr, _y_component(c, f), i, v)]
    ELSE [raised |-> "IndexError", arr |-> c.arr]
ColumnSet ==
    \E f \in FloatFields \cup {BROKEN}, i \in Rows, v \in Vals :
        Call([NoCall EXCEPT !.op = "columnset", !.key = IntKey(i),
                            !.field = f, !.num = v],
             ColumnWrite(Self, f, i, v))

\* C[key] = val
SetItem ==
    \E key \in KeyInputs, val \in SourceInputs :
        Call([NoCall EXCEPT !.op = "setitem", !.key = key, !.src = val],
             PhysicsState_setitem(Self, SourceContainer(val), key, val))

NextEntity ==
    \/ GetItemInt
    \/ GetItemStr
    \/ ViewSetFloat
    \/ ViewSetBroken
    \/ ViewSetLandedOn
    \/ ColumnSet
    \/ SetItem

SpecEntity == InitLive /\ [][NextEntity]_vars

(***************************************************************************)
(* Engineering access on the live container: one call per step,            *)
(* <list>[i], <list>[i].<field> = v, <list>[i].get_coolant_loop() and      *)
(* <list>[i].get_coolant_loop().<field> = v.                               *)
(***************************************************************************)
\* Integer positions a caller may ask a collection for.
EngIndexInputs(kind) == NO_INDEX..EngCount(kind)

\* <list>[i].get_coolant_loop(): [raised, view, ref], ref being the
\* stored reference that was resolved (0 when it was not reached).
ResolveCoolant(arr, kind, i) ==
    LET got == EngListGetItem(kind, i)
    IN  IF got.raised # "none"
        THEN [raised |-> got.raised, view |-> NoEngView, ref |-> 0]
        ELSE IF EngViewGetRaises(arr, got.view, "attached_to_coolant_loop")
                   # "none"
        THEN [raised |-> "IndexError", view |-> NoEngView, ref |-> 0]
        ELSE [raised |-> get_coolant_loop(arr, got.view).raised,
              view |-> get_coolant_loop(arr, got.view).view,
              ref |-> EngViewGet(arr, got.view, "attached_to_coolant_loop")]

\* C.engineering.components[i] / .coolant_loops[i] / .radiators[i]
EngGetItem ==
    \E kind \in EngKinds :
      \E i \in EngIndexInputs(kind) :
        Call([NoCall EXCEPT !.op = "eng_getitem", !.str = kind,
                            !.key = IntKey(i),
                            !.engview = EngListGetItem(kind, i).view],
             [raised |-> EngListGetItem(kind, i).raised, arr |-> array_rep])

\* <list>[i].get_coolant_loop(), on the components and the radiators
GetCoolantLoop ==
    \E kind \in {"component", "radiator"} :
      \E i \in EngIndexInputs(kind) :
        Call([NoCall EXCEPT !.op = "get_coolant_loop", !.str = kind,
                            !.key = IntKey(i),
                            !.ref = ResolveCoolant(array_rep, kind, i).ref,
                            !.engview =
                                ResolveCoolant(array_rep, kind, i).view],
             [raised |-> ResolveCoolant(array_rep, kind, i).raised,
              arr |-> array_rep])

\* The values a caller writes to a field of an engineering view.
EngVals(f) == IF f \in EngBoolFields THEN {0, 1} ELSE Vals

\* <list>[i].<f> = v
EngSet ==
    \E kind \in EngKinds :
      \E i \in EngIndexInputs(kind), f \in DescriptorFields(kind) :
        \E v \in EngVals(f) :
          Call([NoCall EXCEPT !.op = "eng_set", !.str = kind,
                              !.key = IntKey(i), !.field = f, !.num = v,
                              !.engview = EngListGetItem(kind, i).view],
               IF EngListGetItem(kind, i).raised # "none"
               THEN [raised |-> EngListGetItem(kind, i).raised,
                     arr |-> array_rep]
               ELSE EngViewSet(array_rep, EngListGetItem(kind, i).view, f, v))

\* <list>[i].get_coolant_loop().<f> = v
CoolantSetViaRef ==
    \E kind \in {"component", "radiator"} :
      \E i \in EngIndexInputs(kind), f \in DescriptorFields("coolant") :
        \E v \in EngVals(f) :
          Call([NoCall EXCEPT !.op = "coolant_set_via_ref", !.str = kind,
                              !.key = IntKey(i), !.field = f, !.num = v,
                              !.ref = ResolveCoolant(array_rep, kind, i).ref,
                              !.engview =
                                  ResolveCoolant(array_rep, kind, i).view],
               IF ResolveCoolant(array_rep, kind, i).raised # "none"
               THEN [raised |-> ResolveCoolant(array_rep, kind, i).raised,
                     arr |-> array_rep]
               ELSE EngViewSet(array_rep,
                               ResolveCoolant(array_rep, kind, i).view, f, v))

NextEng ==
    \/ EngGetItem
    \/ GetCoolantLoop
    \/ EngSet
    \/ CoolantSetViaRef

SpecEng == InitLive /\ [][NextEng]_vars

(***************************************************************************)
(* Properties.                                                             *)
(***************************************************************************)
\* The container as it was when the last call began.
PreSelf == [Self EXCEPT !.arr = last.pre_arr]
\* The row a key resolves to (for a key that resolves).
KeyResolves(key) == PhysicsState_getitem(Self, key).raised = "none"
KeyRow(key) == PhysicsState_getitem(Self, key).view.index
\* The two ways of asking for the view of row i.
KeysOfRow(i) == {IntKey(i), StrKey(entity_names[i + 1])}

\* The snapshots the round trip is claimed for: unique names, and every
\* landed_on empty or the name of an entity of the snapshot.
SnapshotValid(S) ==
    /\ \A j, k \in 1..Len(S.entities) :
          S.entities[j].name = S.entities[k].name => j = k
    /\ \A k \in 1..Len(S.entities) :
          \/ S.entities[k].landed_on = ""
          \/ \E j \in 1..Len(S.entities) :
                S.entities[j].name = S.entities[k].landed_on
HeadingsNormalized(S) ==
    [S EXCEPT !.entities = [k \in 1..Len(S.entities) |->
        [S.entities[k] EXCEPT !.heading = S.entities[k].heading % TWO_PI]]]

\* C1: for every valid snapshot S, PhysicsState(None, S) is constructed
\* and its as_proto() returns S with each heading replaced by heading mod
\* 2*pi and every other field (landed_on names, unchanging fields,
\* selectors, engineering flags and subsystem fields) as in S.
C1_RoundTrip ==
    SnapshotValid(snap) =>
        /\ pc # "failed"
        /\ pc = "exported" =>
              /\ last.raised = "none"
              /\ out = HeadingsNormalized(snap)
\* A docked entity whose heading is outside [0, 2*pi) has been exported.
C1_Witness ==
    /\ pc = "exported"
    /\ SnapshotValid(snap)
    /\ \E k \in 1..Len(snap.entities) :
          /\ snap.entities[k].landed_on # ""
          /\ snap.entities[k].heading >= TWO_PI
          /\ out.entities[k].heading < TWO_PI
    /\ \E k \in 1..Len(snap.entities) : snap.entities[k].heading < 0

\* C2: after a float field f of a valid row i is written with v through a
\* view, the column accessor of f reads v at position i and every view of
\* row i, asked for by index or by name, reads v for f; after position i
\* of the column accessor of f is written with v, every view of row i
\* reads v for f.
C2_Aliasing ==
    /\ (last.op = "viewset" /\ last.field \in FloatFields
           /\ KeyResolves(last.key) /\ last.view.index \in Rows) =>
          /\ last.raised = "none"
          /\ WinGet(array_rep, _y_component(Self, last.field),
                    last.view.index) = last.num
          /\ \A key \in KeysOfRow(last.view.index) :
                /\ KeyResolves(key)
                /\ entity_view_mutable_fget(Self, KeyRow(key), last.field)
                      = last.num
    /\ (last.op = "columnset" /\ last.field \in FloatFields) =>
          /\ last.raised = "none"
          /\ \A key \in KeysOfRow(last.key.i) :
                /\ KeyResolves(key)
                /\ entity_view_mutable_fget(Self, KeyRow(key), last.field)
                      = last.num
\* A non-zero value has been written through a view of the last row, to a
\* field that is not the first column.
C2_Witness ==
    /\ last.op = "viewset"
    /\ last.field = "vy"
    /\ last.key = StrKey(entity_names[Len(entity_names)])
    /\ last.num = MaxVal
    /\ last.raised = "none"

\* The ten mutable fields of row i as a view reads them, and of a source.
RowReadable(c, i) == SourceRaises(c, ViewSource("self", i)) = "none"
RowValues(c, i) == SourceValues(c, ViewSource("self", i))
SourceBefore(val) ==
    SourceValues(IF val.creator = "other" THEN Other ELSE PreSelf, val)
SourceReadableBefore(val) ==
    SourceRaises(IF val.creator = "other" THEN Other ELSE PreSelf, val)
        = "none"
AliasesRow(val, i) ==
    val.kind = "view" /\ val.creator = "self" /\ val.index = i

\* C3: when C[i] = E returns, for a valid row i and a source E that is a
\* standalone Entity, a view of another container or a view of another
\* row of C, each of the ten mutable fields of row i has the value E had
\* for it before the call.
C3_WholeRowAssignment ==
    (/\ last.op = "setitem"
     /\ last.raised = "none"
     /\ KeyResolves(last.key)
     /\ ~AliasesRow(last.src, KeyRow(last.key))
     /\ last.src.kind = "view" /\ last.src.creator = "self"
            => last.src.index \in Rows
     /\ SourceReadableBefore(last.src)) =>
        /\ RowReadable(Self, KeyRow(last.key))
        /\ \A k \in 1..Len(SetItemOrder) :
              RowValues(Self, KeyRow(last.key))[SetItemOrder[k]]
                  = SourceBefore(last.src)[SetItemOrder[k]]

\* C4: C[i] = C[i], for a valid row i, raises nothing and leaves every
\* cell of the y-vector and the retained snapshot as they were.
C4_SelfAssignmentNoOp ==
    (/\ last.op = "setitem"
     /\ KeyResolves(last.key)
     /\ KeyRow(last.key) \in Rows
     /\ AliasesRow(last.src, KeyRow(last.key))) =>
        /\ last.raised = "none"
        /\ array_rep = last.pre_arr
        /\ proto_state = snap
\* A row has been assigned to itself whose broken cell is not 0.0 or 1.0,
\* so that copying the row's fields would have changed the cell.
C4_Witness ==
    /\ last.op = "setitem"
    /\ KeyResolves(last.key)
    /\ KeyRow(last.key) \in Rows
    /\ AliasesRow(last.src, KeyRow(last.key))
    /\ entity_view_mutable_fget(Self, KeyRow(last.key), BROKEN) \notin {0, 1}

\* C5: C[name] and C[name] = E with a name that is not in the name table
\* raise PhysicsState.NoEntityError.
C5_UnknownNameRaisesNoEntityError ==
    (/\ last.op \in {"getitem", "setitem"}
     /\ last.key.kind = "str"
     /\ ListIndex(entity_names, last.key.s) = NOT_FOUND) =>
        last.raised = "NoEntityError"

\* C6: for an integer row i outside 0..n-1, C[i] raises or no read of a
\* field through the view it returns succeeds, and no write C[i].f = v
\* succeeds.
C6_RowOutOfRangeRaises ==
    /\ (last.op = "getitem" /\ last.key.kind = "int"
           /\ last.key.i \notin Rows /\ last.raised = "none") =>
          \A f \in FloatFields \cup {BROKEN} :
              entity_view_mutable_fget_raises(Self, last.view.index, f)
                  # "none"
    /\ (last.op = "viewset" /\ last.key.kind = "int"
           /\ last.key.i \notin Rows) =>
          last.raised # "none"

\* C10: C[key].landed_on = s through the view C[key] returns, with s
\* neither empty nor in the name table, raises NoEntityError and leaves
\* the y-vector as it was, so reading landed_on has the outcome it had
\* before (the same name, or the same failure of a cell that names no row).
C10_UnknownLandedOnRejected ==
    (/\ last.op = "viewset"
     /\ last.field = _LANDED_ON
     /\ KeyResolves(last.key)
     /\ _name_to_index(entity_names, last.str) = NOT_FOUND) =>
        /\ last.raised = "NoEntityError"
        /\ array_rep = last.pre_arr
        /\ last.view.index \in Rows =>
              /\ entity_view_mutable_fget_landed_on_raises(
                     Self, last.view.index)
                   = entity_view_mutable_fget_landed_on_raises(
                         PreSelf, last.view.index)
              /\ entity_view_mutable_fget_landed_on_raises(
                     Self, last.view.index) = "none" =>
                    entity_view_mutable_fget_landed_on(Self, last.view.index)
                        = entity_view_mutable_fget_landed_on(
                              PreSelf, last.view.index)
\* An unknown name has been refused on a row that is landed.
C10_Witness ==
    /\ last.op = "viewset"
    /\ last.field = _LANDED_ON
    /\ last.str = "Pluto"
    /\ KeyResolves(last.key)
    /\ last.raised = "NoEntityError"
    /\ last.view.index \in Rows
    /\ entity_view_mutable_fget_landed_on(Self, last.view.index) = AYSE

\* C7: get_coolant_loop() on the view of a component or radiator whose
\* stored reference is 0 fails.
C7_UnattachedNotResolved ==
    (/\ last.op = "get_coolant_loop"
     /\ EngListGetItem(last.str, last.key.i).raised = "none"
     /\ last.ref = 0) =>
        last.raised # "none"

\* C8: an integer lookup into Components, CoolantLoops or Radiators
\* outside 0..count-1 raises IndexError and returns no view; inside the
\* range it returns the view of that instance.
C8_EngLookupBounds ==
    last.op = "eng_getitem" =>
        IF last.key.i \in 0..(EngCount(last.str) - 1)
        THEN /\ last.raised = "none"
             /\ last.engview = [kind |-> last.str, n |-> last.key.i]
        ELSE /\ last.raised = "IndexError"
             /\ last.engview = NoEngView

\* The cell of field f of the coolant loop at 0-based position j.
CoolantCell(j, f) ==
    array_rep[(Len(array_rep) - N_ENGINEERING_FIELDS)
              + _N_COMPONENTS * _N_COMPONENT_FIELDS
              + j * _N_COOLANT_FIELDS
              + EngFieldOffset(CoolantLoopDescriptor, f) + 1]

\* C9: with a stored reference k in 1..number of coolant loops,
\* get_coolant_loop() returns the view of the loop at position k-1:
\* reads through it give that loop's cells, and a write through it is
\* read back through coolant_loops[k-1].
C9_CoolantReferenceResolution ==
    /\ (last.op = "get_coolant_loop"
           /\ last.ref \in 1.._N_COOLANT_LOOPS) =>
          /\ last.raised = "none"
          /\ last.engview = [kind |-> "coolant", n |-> last.ref - 1]
          /\ \A f \in DescriptorFields("coolant") :
                /\ EngViewGetRaises(array_rep, last.engview, f) = "none"
                /\ EngViewGet(array_rep, last.engview, f)
                      = CoolantCell(last.ref - 1, f)
    /\ (last.op = "coolant_set_via_ref"
           /\ last.ref \in 1.._N_COOLANT_LOOPS) =>
          /\ last.raised = "none"
          /\ EngViewGet(array_rep,
                        EngListGetItem("coolant", last.ref - 1).view,
                        last.field) = last.num
          /\ CoolantCell(last.ref - 1, last.field) = last.num
\* A loop resolved from the reference of the last loop has been written.
C9_Witness ==
    /\ last.op = "coolant_set_via_ref"
    /\ last.ref = _N_COOLANT_LOOPS
    /\ last.field = "coolant_temp"
    /\ last.num = MaxVal
    /\ last.raised = "none"

\* C11: after C[i].landed_on = m for a valid row i and m a name of the
\* name table, reading C[i].landed_on succeeds and returns m; after
\* C[i].landed_on = "" it returns ""; and landed() is true exactly when
\* the value read is not empty.
C11_LandedOnTranslation ==
    (/\ last.op = "viewset"
     /\ last.field = _LANDED_ON
     /\ KeyResolves(last.key)
     /\ last.view.index \in Rows
     /\ \/ last.str = ""
        \/ \E k \in 1..Len(entity_names) : entity_names[k] = last.str) =>
        /\ last.raised = "none"
        /\ entity_view_mutable_fget_landed_on_raises(Self, last.view.index)
              = "none"
        /\ entity_view_mutable_fget_landed_on(Self, last.view.index)
              = last.str
        /\ Entity_landed(Self, last.view.index) <=> last.str # ""
\* The last row, not landed before, has been landed on the first entity.
C11_Witness ==
    /\ last.op = "viewset"
    /\ last.field = _LANDED_ON
    /\ last.str = entity_names[1]
    /\ last.view.index = Len(entity_names) - 1
    /\ last.raised = "none"
    /\ entity_view_mutable_fget_landed_on(PreSelf, last.view.index) = ""
    /\ Entity_landed(Self, last.view.index)

\* C18: when C[i] = E, for a valid row i, fails with NoEntityError because
\* E's landed_on names no entity of C's name table, each of the ten
\* mutable fields of row i reads what it read before the call.
C18_FailedAssignmentChangesNothing ==
    (/\ last.op = "setitem"
     /\ last.raised = "NoEntityError"
     /\ KeyResolves(last.key)
     /\ KeyRow(last.key) \in Rows
     /\ RowReadable(PreSelf, KeyRow(last.key))) =>
        /\ RowReadable(Self, KeyRow(last.key))
        /\ \A k \in 1..Len(SetItemOrder) :
              RowValues(Self, KeyRow(last.key))[SetItemOrder[k]]
                  = RowValues(PreSelf, KeyRow(last.key))[SetItemOrder[k]]

(***************************************************************************)
(* Construction on both paths, from snapshots over several name tables    *)
(* and from y-vectors of the right and of wrong lengths, and the craft     *)
(* property of the container built.                                        *)
(***************************************************************************)
\* PhysicsState.craft: [raised, none, name], none being "returned None".
PhysicsState_craft(c) ==
    IF ListIndex(c.names, HABITAT) = NOT_FOUND
          /\ ListIndex(c.names, AYSE) = NOT_FOUND
    THEN [raised |-> "none", none |-> TRUE, name |-> ""]
    ELSE IF ListIndex(c.names, AYSE) = NOT_FOUND
    THEN [raised |-> "none", none |-> FALSE, name |-> HABITAT]
    ELSE IF _name_to_index(c.names, HABITAT) = NOT_FOUND
    THEN [raised |-> "NoEntityError", none |-> FALSE, name |-> ""]
    ELSE [raised |-> "none", none |-> FALSE,
          name |-> IF WinGet(c.arr, _y_component(c, _LANDED_ON),
                             _name_to_index(c.names, HABITAT))
                        = _name_to_index(c.names, AYSE)
                   THEN AYSE ELSE HABITAT]

\* Name tables of the snapshots handed to the constructor.
NameTables ==
    {<<>>, <<HABITAT>>, <<AYSE>>, <<"Moon">>, <<HABITAT, AYSE>>,
     <<AYSE, HABITAT>>, <<HABITAT, "Moon">>, <<"Moon", AYSE>>}
\* Headings below 0, inside [0, 2*pi) and above 2*pi.
HeadingInputs == {-1, TWO_PI - 1, TWO_PI + MaxVal}
\* The snapshot over a name table: the first entity has heading h and is
\* landed on m, the k-th entity has x = k and heading h + k - 1, and a
\* parked craft's fuel is more than a turn's worth of heading.
SnapshotOver(names, h, m) ==
    [BaseSnapshot EXCEPT
        !.entities = [k \in 1..Len(names) |->
            [BaseEntity(names[k]) EXCEPT
                !.x = k, !.heading = h + k - 1, !.fuel = TWO_PI + k,
                !.landed_on = IF k = 1 THEN m ELSE ""]],
        !.srb_time = TWO_PI + 1]
BuildSnapshots ==
    {SnapshotOver(names, h, m) :
        names \in NameTables, h \in HeadingInputs, m \in {"", AYSE}}
\* y-vectors handed to the constructor with a snapshot: the assembled
\* vector (headings not yet normalized), the same with the scalars moved
\* on, and vectors one cell short, one cell long, and far too short.
HotBuffers(S) ==
    LET a == ColdArray(S)
    IN  {a,
         [a EXCEPT ![NpPos(Len(a), SRB_TIME_INDEX) + 1] = MaxVal,
                   ![NpPos(Len(a), TIME_ACC_INDEX) + 1] = MaxVal + 1],
         SubSeq(a, 1, Len(a) - 1),
         a \o <<0>>,
         SubSeq(a, 1, 1)}

InitBuild ==
    /\ pc = "input"
    /\ snap \in {S \in BuildSnapshots : ColdConstructRaises(S) = "none"}
    /\ nedits = 0
    /\ proto_state = snap
    /\ entity_names = <<>>
    /\ array_rep = <<>>
    /\ last = NoCall
    /\ nops = 0
    /\ out = snap

\* The constructor's outcome: the container c, or the exception raised.
Build(call, raised, c) ==
    /\ pc = "input"
    /\ IF raised = "none"
       THEN /\ pc' = "live"
            /\ proto_state' = c.proto
            /\ entity_names' = c.names
            /\ array_rep' = c.arr
            /\ last' = call
       ELSE /\ pc' = "failed"
            /\ last' = [call EXCEPT !.raised = raised]
            /\ UNCHANGED <<proto_state, entity_names, array_rep>>
    /\ UNCHANGED <<snap, nedits, nops, out>>

\* PhysicsState(None, snap); pre_arr is the vector before np.mod.
BuildCold ==
    Build([NoCall EXCEPT !.op = "build_cold", !.pre_arr = ColdArray(snap)],
          ColdConstructRaises(snap), ColdConstruct(snap))
\* PhysicsState(y, snap); pre_arr is y.
BuildHot ==
    \E y \in HotBuffers(snap) :
        Build([NoCall EXCEPT !.op = "build_hot", !.pre_arr = y],
              HotConstructRaises(y, snap), HotConstruct(y, snap))

\* C.craft
Craft ==
    /\ pc = "live"
    /\ pc' = "asked"
    /\ last' = [NoCall EXCEPT !.op = "craft",
                              !.raised = PhysicsState_craft(Self).raised,
                              !.none = PhysicsState_craft(Self).none,
                              !.str = PhysicsState_craft(Self).name]
    /\ UNCHANGED <<snap, nedits, proto_state, entity_names, array_rep, nops,
                   out>>

NextBuild ==
    \/ BuildCold
    \/ BuildHot
    \/ ViewSetLandedOn
    \/ Craft

SpecBuild == InitBuild /\ [][NextBuild]_vars

\* The length spec'd for the y-vector of a container over S.
SpecifiedLength(S) ==
    Len(S.entities) * Len(_PER_ENTITY_MUTABLE_FIELDS) + 1 + 1
        + (_N_COMPONENTS * _N_COMPONENT_FIELDS
           + _N_COOLANT_LOOPS * _N_COOLANT_FIELDS
           + _N_RADIATORS * _N_RADIATOR_FIELDS)

\* C12: PhysicsState(y, S) with a y whose length is not
\* entities * mutable fields + 2 + engineering fields, shorter or longer,
\* raises and leaves no container; every container constructed, on either
\* path, has a y-vector of exactly that length.
C12_LengthInvariant ==
    /\ (last.op = "build_hot"
           /\ Len(last.pre_arr) # SpecifiedLength(snap)) =>
          /\ pc = "failed"
          /\ last.raised # "none"
    /\ pc \in {"live", "asked"} => Len(array_rep) = SpecifiedLength(snap)
\* A y-vector one cell too long has been refused.
C12_Witness ==
    /\ pc = "failed"
    /\ last.op = "build_hot"
    /\ Len(last.pre_arr) = SpecifiedLength(snap) + 1
    /\ Len(snap.entities) > 1
    /\ last.raised = "AssertionError"

\* The cells of the Heading column, as 1-based positions of the y-vector.
HeadingCells(c) ==
    {q \in 1..Len(c.arr) :
        /\ q - 1 >= _y_component(c, "heading").off
        /\ q - 1 < _y_component(c, "heading").off
                      + _y_component(c, "heading").size}

HabitatLandedOn(c) ==
    entity_view_mutable_fget_landed_on(c, ListIndex(c.names, HABITAT))

\* C14: craft never fails; it returns the AYSE name when Habitat is in the
\* name table and its landed_on reads the AYSE name, otherwise the Habitat
\* name, and None when neither Habitat nor AYSE is in the table.
C14_CraftResolution ==
    last.op = "craft" =>
        /\ last.raised = "none"
        /\ IF ListIndex(entity_names, HABITAT) = NOT_FOUND
              /\ ListIndex(entity_names, AYSE) = NOT_FOUND
           THEN last.none
           ELSE /\ ~last.none
                /\ last.str =
                      IF /\ ListIndex(entity_names, HABITAT) # NOT_FOUND
                         /\ ListIndex(entity_names, AYSE) # NOT_FOUND
                         /\ HabitatLandedOn(Self) = AYSE
                      THEN AYSE ELSE HABITAT

(***************************************************************************)
(* A container's life: construction on either path, writes through views   *)
(* of valid rows, through the two scalar setters and through engineering   *)
(* views, then as_proto() or a second container wrapped around y0().       *)
(***************************************************************************)
\* PhysicsState.y0()
PhysicsState_y0(c) == c.arr

\* The srb_time and time_acc properties.
PhysicsState_srb_time(c) == c.proto.srb_time
PhysicsState_time_acc(c) == c.proto.time_acc
ScalarIndex(field) ==
    IF field = "srb_time" THEN SRB_TIME_INDEX ELSE TIME_ACC_INDEX
\* A scalar setter that updates the retained snapshot only.
PhysicsState_set_scalar_proto_only(c, field, val) ==
    [c EXCEPT !.proto[field] = val]
\* The srb_time and time_acc setters: the retained snapshot's field, then
\* the cell of the y-vector.
PhysicsState_set_scalar(c, field, val) ==
    [c EXCEPT !.proto[field] = val,
              !.arr = WinSet(c.arr, Whole(c.arr), ScalarIndex(field), val)]

\* Values written during a life: a small one and one of a turn and more.
LifeVals == {1, TWO_PI + MaxVal}
LifeEngVals(f) == IF f \in EngBoolFields THEN {0, 1} ELSE LifeVals
\* Names a row is landed on: none, or an entity of the table.
LifeNames == {""} \cup {entity_names[k] : k \in 1..Len(entity_names)}

InitLife ==
    /\ pc = "input"
    /\ snap = DockedSnapshot
    /\ nedits = 0
    /\ proto_state = snap
    /\ entity_names = <<>>
    /\ array_rep = <<>>
    /\ last = NoCall
    /\ nops = 0
    /\ out = snap

\* C[i].<f> = v through the view of a valid row
RowSet ==
    \E i \in Rows :
        \/ \E f \in FloatFields, v \in LifeVals :
              ThroughView(IntKey(i), [NoCall EXCEPT !.field = f, !.num = v],
                  entity_view_mutable_fset(Self, KeyView(IntKey(i)).index,
                                           f, v))
        \/ \E b \in BOOLEAN :
              ThroughView(IntKey(i),
                  [NoCall EXCEPT !.field = BROKEN, !.num = BoolToNum(b)],
                  entity_view_mutable_fset(Self, KeyView(IntKey(i)).index,
                                           BROKEN, BoolToNum(b)))
        \/ \E m \in LifeNames :
              ThroughView(IntKey(i),
                  [NoCall EXCEPT !.field = _LANDED_ON, !.str = m],
                  entity_view_mutable_fset_landed_on(
                      Self, KeyView(IntKey(i)).index, m))

\* C.srb_time = v / C.time_acc = v
ScalarSet ==
    \E f \in {"srb_time", "time_acc"}, v \in LifeVals :
        /\ pc = "live"
        /\ nops < MaxOps
        /\ nops' = nops + 1
        /\ proto_state' = PhysicsState_set_scalar(Self, f, v).proto
        /\ array_rep' = PhysicsState_set_scalar(Self, f, v).arr
        /\ last' = [NoCall EXCEPT !.op = "scalarset", !.field = f,
                                  !.num = v, !.pre_arr = array_rep]
        /\ UNCHANGED <<pc, snap, nedits, entity_names, out>>

\* <list>[i].<f> = v for an instance of the collection
InstanceSet ==
    \E kind \in EngKinds :
      \E i \in 0..(EngCount(kind) - 1), f \in DescriptorFields(kind) :
        \E v \in LifeEngVals(f) :
          Call([NoCall EXCEPT !.op = "eng_set", !.str = kind,
                              !.key = IntKey(i), !.field = f, !.num = v,
                              !.engview = EngListGetItem(kind, i).view],
               EngViewSet(array_rep, EngListGetItem(kind, i).view, f, v))

\* C2 = PhysicsState(C.y0(), S), S being the snapshot C was built from
Rebuild ==
    /\ pc = "live"
    /\ pc' = "rebuilt"
    /\ IF HotConstructRaises(PhysicsState_y0(Self), snap) = "none"
       THEN /\ out' = HotConstruct(PhysicsState_y0(Self), snap).proto
            /\ last' = [NoCall EXCEPT
                            !.op = "rebuild",
                            !.built =
                                HotConstruct(PhysicsState_y0(Self), snap).arr]
       ELSE /\ out' = out
            /\ last' = [NoCall EXCEPT
                            !.op = "rebuild",
                            !.raised = HotConstructRaises(
                                           PhysicsState_y0(Self), snap)]
    /\ UNCHANGED <<snap, nedits, proto_state, entity_names, array_rep,
                   nops>>

NextLife ==
    \/ BuildCold
    \/ BuildHot
    \/ RowSet
    \/ ScalarSet
    \/ InstanceSet
    \/ AsProto
    \/ Rebuild

SpecLife == InitLife /\ [][NextLife]_vars

Twin == [proto |-> out, names |-> ProtoNames(snap), arr |-> last.built]
\* The unchanging fields of an entity.
UnchangingFields ==
    {_PER_ENTITY_UNCHANGING_FIELDS[k] :
        k \in 1..Len(_PER_ENTITY_UNCHANGING_FIELDS)}

\* C16: C2 = PhysicsState(C1.y0(), S), made after any writes through
\* C1's views of valid rows, scalar setters and engineering views, is
\* constructed, and reads through C2 what C1 reads: every mutable
\* entity field (heading modulo 2*pi), srb_time, time_acc and every
\* engineering subsystem field; every unchanging field read through C2 is
\* that of S.
C16_HotPathEqualsColdPath ==
    pc = "rebuilt" =>
        /\ last.raised = "none"
        /\ N(Twin) = N(Self)
        /\ \A i \in Rows :
              /\ \A f \in FloatFields \ {"heading"} :
                    /\ entity_view_mutable_fget_raises(Twin, i, f) = "none"
                    /\ entity_view_mutable_fget(Twin, i, f)
                          = entity_view_mutable_fget(Self, i, f)
              /\ entity_view_mutable_fget(Twin, i, "heading") % TWO_PI
                    = entity_view_mutable_fget(Self, i, "heading") % TWO_PI
              /\ entity_view_mutable_fget_bool(Twin, i, BROKEN)
                    = entity_view_mutable_fget_bool(Self, i, BROKEN)
              /\ entity_view_mutable_fget_landed_on_raises(Twin, i)
                    = entity_view_mutable_fget_landed_on_raises(Self, i)
              /\ entity_view_mutable_fget_landed_on_raises(Self, i)
                    = "none" =>
                       entity_view_mutable_fget_landed_on(Twin, i)
                           = entity_view_mutable_fget_landed_on(Self, i)
              /\ \A f \in UnchangingFields :
                    entity_view_unchanging_fget(Twin, i)[f]
                        = snap.entities[i + 1][f]
        /\ PhysicsState_srb_time(Twin) = PhysicsState_srb_time(Self)
        /\ PhysicsState_time_acc(Twin) = PhysicsState_time_acc(Self)
        /\ \A kind \in EngKinds :
              \A j \in 0..(EngCount(kind) - 1) :
                \A f \in DescriptorFields(kind) :
                   /\ EngViewGetRaises(Twin.arr, [kind |-> kind, n |-> j], f)
                         = "none"
                   /\ EngViewGet(Twin.arr, [kind |-> kind, n |-> j], f)
                         = EngViewGet(array_rep, [kind |-> kind, n |-> j], f)
\* The twin of a container whose last row was given a heading of a turn
\* and more after its construction.
C16_Witness ==
    /\ pc = "rebuilt"
    /\ last.raised = "none"
    /\ nops = 1
    /\ Len(last.built) = Len(array_rep)
    /\ entity_view_mutable_fget(Self, N(Self) - 1, "heading")
          = TWO_PI + MaxVal
    /\ entity_view_mutable_fget(Twin, N(Self) - 1, "heading") = MaxVal

\* What a view property returns for the cell: bool() of it for a flag.
EngViewRead(arr, view, f) ==
    IF f \in EngBoolFields THEN NumToBool(EngViewGet(arr, view, f))
    ELSE EngViewGet(arr, view, f)

\* C15: after any writes through Component, CoolantLoop and Radiator
\* views, as_proto() returns an engineering structure in which every
\* buffer-resident field of every instance, attached_to_coolant_loop of
\* the components included, is what the instance's view reads now, and
\* the global flags are those of the retained snapshot.
C15_EngineeringRoundTrip ==
    (pc = "exported" /\ last.raised = "none") =>
        /\ \A kind \in EngKinds :
              \A j \in 0..(EngCount(kind) - 1) :
                \A f \in DescriptorFields(kind) :
                   out.engineering[EngListField(kind)][j + 1][f]
                       = EngViewRead(array_rep, [kind |-> kind, n |-> j], f)
        /\ \A g \in EngFlags :
              out.engineering[g] = proto_state.engineering[g]

\* The column of a mutable field: its 0-based place in the field list.
Column(f) ==
    (CHOOSE k \in 1..Len(_PER_ENTITY_MUTABLE_FIELDS) :
        _PER_ENTITY_MUTABLE_FIELDS[k] = f) - 1
\* The number of cells of the entity block: n rows of M fields.
EntityBlock == Len(entity_names) * Len(_PER_ENTITY_MUTABLE_FIELDS)

====
